---- MODULE Spec2Model ----
(***************************************************************************)
(* PawSense backend: the model-resource cache (app/services/               *)
(* model_service.py), the detection pipeline and its two output decoders   *)
(* (app/services/detection_service_fixed.py, the one the controllers use,  *)
(* and app/services/detection_service.py), and the controllers.            *)
(*                                                                         *)
(* Scheduling.  Every caller of ModelService is an `async def` coroutine   *)
(* of the one asyncio event loop (startup_event, process_detection,        *)
(* debug_model_output): a coroutine keeps the loop's thread until it       *)
(* awaits, and the only await of a request is `await file.read()`.         *)
(* requests.get, YOLO(...), interpreter.invoke are plain blocking calls.   *)
(* `running` is the coroutine that holds the thread; a step of p needs     *)
(* the thread to be p's or free.  The sub-steps of a blocking section are  *)
(* kept apart so that an in-flight download or invoke is a state.          *)
(*                                                                         *)
(* Objects.  A cached object is named by the sequence number of the        *)
(* download it was built from, per key and artifact; 0 is "no entry".      *)
(*                                                                         *)
(* Numbers.  Tensor values are exact fixed-point numbers in millionths;    *)
(* float32 rounding error is not modelled.                                 *)
(***************************************************************************)
EXTENDS Integers, Sequences, FiniteSets, TLC

\* ------------------------------------------------------------- bounds
NumReqs == 2

\* ---------------------------------------------------------- constants
Registered == {"cats", "dogs"}
StartupKeys == <<"cats", "dogs">>
Keys == Registered \cup {"birds"}
Arts == {"model", "labels", "metadata"}
Routes == {"detect", "debug"}

Startup == 0
Reqs == 1..NumReqs
Procs == {Startup} \cup Reqs
NoProc == -1
Absent == 0

VARIABLES
  models_cache, labels_cache, metadata_cache,  \* ModelService's three dicts
  meta_nondoc,   \* cached metadata objects that are not key/value documents
  dlStarted,     \* requests.get calls started, per key and artifact
  tempfiles,     \* scratch files on disk: <<key, artifact, n>>
  interp,        \* interpreter handle -> [inp, out]: its tensors' owners
  running,       \* the coroutine holding the event loop's thread
  pc, key, route, ret, rv,   \* per coroutine: position, model_type, route,
                             \* caller of initialize_model_resources, return value
  si,            \* initialize_all_models: index of the key being initialised
  mdl, lbl, meta, out,       \* process_detection's locals
  exc, resp,     \* last exception raised in the coroutine; the client's status
  reqDl,         \* downloads started by each coroutine, per artifact
  coldAt, pending,           \* history, taken when a request calls get_model
  image, output_data, labels,  \* run_inference's arguments and raw output tensor
  inference,     \* what run_inference returned or raised
  detection_confidence,  \* config.DETECTION_CONFIDENCE of this run
  upload, verdict,       \* validate_image's argument and its outcome
  upstream, body,        \* two runs of one failing artifact load; their answers
  response,              \* the DetectionResponse process_detection built
  health                 \* the HealthResponse of the last health check

svcVars == <<models_cache, labels_cache, metadata_cache, meta_nondoc,
             dlStarted, tempfiles, interp>>
procVars == <<running, pc, key, route, ret, rv, si, mdl, lbl, meta, out,
              exc, resp, reqDl, coldAt, pending>>
decVars == <<image, output_data, labels, inference, detection_confidence,
             upload, verdict, upstream, body, response, health>>
vars == <<svcVars, procVars, decVars>>

NoExc == [status |-> 0, detail |-> "none"]

\* ------------------------------------------------- ModelService helpers

\* a cache whose membership test never finds an entry
InCacheNever(cache, k) == FALSE

\* `model_type in self.<cache>`
InCache(cache, k) == cache[k] # Absent

\* `self.<cache>[model_type] = obj`
CachePut(cache, k, obj) == [cache EXCEPT ![k] = obj]

\* `model_type not in self.hf_urls`
IsRegistered(k) == k \in Registered

CacheOf(art) ==
  CASE art = "model" -> models_cache
    [] art = "labels" -> labels_cache
    [] art = "metadata" -> metadata_cache

\* the thread after a call that gives it up (an awaited call would)
AfterCallYield(p) == NoProc

\* The thread after p calls requests.get, a plain (not awaited) blocking
\* call: still p's.
AfterCall(p) == p

\* the thread after an invoke that gives it up
AfterInvokeYield(p) == NoProc

\* The thread after p calls interpreter.invoke(), likewise still p's.
AfterInvoke(p) == p

\* A step of p can run: the thread is p's, or free.
Scheduled(p) == running \in {p, NoProc}

\* The status the client sees for an exception of the given status:
\* detect_cats/detect_dogs keep an HTTPException's status_code;
\* debug_model_output turns every exception into 500.
ClientStatusAlways500(rt, status) == 500
ClientStatus(rt, status) == IF rt = "debug" THEN 500 ELSE status

\* An exception leaves the coroutine's blocking section.  In
\* initialize_all_models it is caught and the loop goes on; in a request it
\* reaches the controller, which answers.
Raise(p, status, detail) ==
  /\ exc' = [exc EXCEPT ![p] = [status |-> status, detail |-> detail]]
  /\ ret' = [ret EXCEPT ![p] = "none"]
  /\ rv' = [rv EXCEPT ![p] = Absent]
  /\ IF p = Startup
       THEN /\ pc' = [pc EXCEPT ![p] = "startup_next"]
            /\ running' = p
            /\ resp' = resp
       ELSE /\ pc' = [pc EXCEPT ![p] = "done"]
            /\ running' = NoProc
            /\ resp' = [resp EXCEPT ![p] = ClientStatus(route[p], status)]

Goto(p, label) ==
  /\ pc' = [pc EXCEPT ![p] = label]
  /\ running' = p

\* ------------------------------------------------------ run_inference
\* Tensor values and confidences are integers in millionths.  A box corner
\* is kept in units of 1/(2 * Unit) pixel, in which (c - w/2) * W is the
\* integer (2c - w) * W; an emitted corner is in hundredths of a pixel and an
\* emitted confidence in ten-thousandths, the grids round() leaves them on.

Unit == 1000 * 1000

\* the largest number of rows of a raw output tensor
MaxRows == 2

Max(a, b) == IF a >= b THEN a ELSE b
Min(a, b) == IF a <= b THEN a ELSE b

\* round(v, ndigits) of Python for v >= 0: to the nearest multiple of d, a tie
\* to the even one
Round(n, d) ==
  LET q == n \div d
      r == n % d
  IN IF 2 * r < d THEN q
     ELSE IF 2 * r > d THEN q + 1
     ELSE IF q % 2 = 0 THEN q ELSE q + 1

\* int(v): truncation toward zero
IntTrunc(v) == IF v >= 0 THEN v \div Unit ELSE -((-v) \div Unit)

\* the product of two tensor values that are whole thousandths
Mul(a, b) == (a \div 1000) * (b \div 1000)

\* an argmax that takes the last of equal maxima
ArgMaxLast(scores) ==
  (CHOOSE i \in 1..Len(scores) :
     /\ \A j \in 1..Len(scores) : scores[j] <= scores[i]
     /\ \A j \in (i + 1)..Len(scores) : scores[j] < scores[i]) - 1

\* np.argmax: the 0-based index of the first largest element
ArgMax(scores) ==
  (CHOOSE i \in 1..Len(scores) :
     /\ \A j \in 1..Len(scores) : scores[j] <= scores[i]
     /\ \A j \in 1..(i - 1) : scores[j] < scores[i]) - 1

\* ndarray.transpose(1, 0) of an a x b matrix
Transpose(m, a, b) == [j \in 1..b |-> [i \in 1..a |-> m[i][j]]]

\* a corner left where it is, even outside the image
ClampNone(x, bound) == x

\* max(0, min(x, bound)), bound in pixels
Clamp(x, bound) == Max(0, Min(x, 2 * Unit * bound))

\* labels.get(class_id, f"Unknown_{class_id}")
\* a fallback label that leaves the class id out
LabelOfNoId(lbls, class_id) ==
  IF class_id \in DOMAIN lbls THEN lbls[class_id] ELSE "Unknown"

LabelOf(lbls, class_id) ==
  IF class_id \in DOMAIN lbls THEN lbls[class_id]
  ELSE "Unknown_" \o ToString(class_id)

\* Detection(class_id=, label=, confidence=round(.., 4), bbox=[round(.., 2)..])
MakeDetection(lbls, class_id, confidence, x1, y1, x2, y2) ==
  [class_id |-> class_id,
   label |-> LabelOf(lbls, class_id),
   confidence |-> Round(confidence, Unit \div 10000),
   bbox |-> <<Round(x1, Unit \div 50), Round(y1, Unit \div 50),
              Round(x2, Unit \div 50), Round(y2, Unit \div 50)>>]

\* pydantic's check of Detection.confidence: Field(..., ge=0, le=1)
ValidDetection(d) == d.confidence >= 0 /\ d.confidence <= 10000

\* what one loop iteration does with its row
Skip == [kind |-> "skip"]
Raised == [kind |-> "raise"]
Emit(d) == IF ValidDetection(d) THEN [kind |-> "emit", det |-> d] ELSE Raised

\* the corners, clamped; then the degenerate-box test, then the Detection
BoxToDetection(img, lbls, class_id, confidence, X1, Y1, X2, Y2) ==
  LET x1 == Clamp(X1, img.width)
      y1 == Clamp(Y1, img.height)
      x2 == Clamp(X2, img.width)
      y2 == Clamp(Y2, img.height)
  IN IF x2 <= x1 \/ y2 <= y1 THEN Skip
     ELSE Emit(MakeDetection(lbls, class_id, confidence, x1, y1, x2, y2))

\* detection_service_fixed.py, one prediction of the transposed tensor
ThresholdFixed == Unit \div 4
DecodeRowFixed(pred, img, lbls) ==
  IF Len(pred) < 5 THEN Raised
  ELSE
    LET x_center == pred[1]
        y_center == pred[2]
        box_width == pred[3]
        box_height == pred[4]
        class_scores == SubSeq(pred, 5, Len(pred))
        class_id == ArgMax(class_scores)
        confidence == class_scores[class_id + 1]
    IN IF confidence < ThresholdFixed THEN Skip
       ELSE BoxToDetection(img, lbls, class_id, confidence,
              (2 * x_center - box_width) * img.width,
              (2 * y_center - box_height) * img.height,
              (2 * x_center + box_width) * img.width,
              (2 * y_center + box_height) * img.height)

\* a threshold that also drops a confidence of exactly 0.5
ThresholdOrigStrict == Unit \div 2 + 1

\* detection_service.py, one row of the tensor
ThresholdOrig == Unit \div 2
NumValuesYolo == 85
NumValuesSimple == 6
IsNormalized(x_center, y_center) == x_center <= Unit /\ y_center <= Unit
DecodeRowOrig(detection, img, lbls) ==
  IF Len(detection) < NumValuesSimple THEN Skip
  ELSE
    LET x_center == detection[1]
        y_center == detection[2]
        w == detection[3]
        h == detection[4]
        yolo == Len(detection) >= NumValuesYolo
        class_scores == SubSeq(detection, 6, Len(detection))
        class_id == IF yolo THEN ArgMax(class_scores)
                    ELSE IntTrunc(detection[6])
        confidence == IF yolo THEN Mul(detection[5], class_scores[class_id + 1])
                      ELSE detection[5]
        sx == IF IsNormalized(x_center, y_center) THEN img.width ELSE 1
        sy == IF IsNormalized(x_center, y_center) THEN img.height ELSE 1
    IN IF confidence < ThresholdOrig THEN Skip
       ELSE BoxToDetection(img, lbls, class_id, confidence,
              (2 * x_center - w) * sx, (2 * y_center - h) * sy,
              (2 * x_center + w) * sx, (2 * y_center + h) * sy)

\* the detections of the rows that emitted one, last row first
RECURSIVE EmittedLastFirst(_)
EmittedLastFirst(steps) ==
  IF steps = <<>> THEN <<>>
  ELSE EmittedLastFirst(Tail(steps))
       \o (IF Head(steps).kind = "emit" THEN <<Head(steps).det>> ELSE <<>>)

\* the detections of the rows that emitted one, in row order
RECURSIVE Emitted(_)
Emitted(steps) ==
  IF steps = <<>> THEN <<>>
  ELSE (IF Head(steps).kind = "emit" THEN <<Head(steps).det>> ELSE <<>>)
       \o Emitted(Tail(steps))

\* the loop over the rows: the first exception ends it, and `except Exception`
\* turns it into HTTPException(500, "Error during inference: ...")
Failed == [status |-> 500, detections |-> <<>>]
Collect(steps) ==
  IF \E i \in 1..Len(steps) : steps[i].kind = "raise" THEN Failed
  ELSE [status |-> 200, detections |-> Emitted(steps)]

\* detection_service_fixed.py run_inference, from get_tensor on
RunInferenceFixed(t, img, lbls) ==
  IF Len(t.shape) # 3 THEN Failed
  ELSE
    LET num_channels == t.shape[2]
        num_predictions == t.shape[3]
        predictions == Transpose(t.data, num_channels, num_predictions)
    IN Collect([i \in 1..num_predictions |->
                  DecodeRowFixed(predictions[i], img, lbls)])

\* detection_service.py run_inference, from get_tensor on (one output tensor)
RunInferenceOrig(t, img, lbls) ==
  IF Len(t.shape) # 3 THEN [status |-> 200, detections |-> <<>>]
  ELSE
    LET num_detections == t.shape[2]
    IN Collect([i \in 1..num_detections |->
                  DecodeRowOrig(t.data[i], img, lbls)])

\* ------------------------------------------------------------- Init

InitService ==
  /\ models_cache = [k \in Keys |-> Absent]
  /\ labels_cache = [k \in Keys |-> Absent]
  /\ metadata_cache = [k \in Keys |-> Absent]
  /\ meta_nondoc = {}
  /\ dlStarted = [k \in Registered |-> [a \in Arts |-> 0]]
  /\ tempfiles = {}
  /\ interp = <<>>
  /\ running = Startup
  /\ pc = [p \in Procs |-> IF p = Startup THEN "startup_loop" ELSE "new"]
  /\ key = [p \in Procs |-> "cats"]
  /\ route = [r \in Reqs |-> "detect"]
  /\ ret = [p \in Procs |-> "none"]
  /\ rv = [p \in Procs |-> Absent]
  /\ si = 1
  /\ mdl = [r \in Reqs |-> Absent]
  /\ lbl = [r \in Reqs |-> Absent]
  /\ meta = [r \in Reqs |-> Absent]
  /\ out = [r \in Reqs |-> NoProc]
  /\ exc = [p \in Procs |-> NoExc]
  /\ resp = [r \in Reqs |-> 0]
  /\ reqDl = [p \in Procs |-> [a \in Arts |-> 0]]
  /\ coldAt = [r \in Reqs |-> {"unset"}]
  /\ pending = [r \in Reqs |-> {}]

\* ------------------------------------------- run_inference on its own
\* The raw tensors run_inference is tried on: candidate rows, each a box
\* followed by a tail, laid out [1, rows, values] or [1, values, rows], or
\* without the batch dimension (rank 2), or with one dimension more (rank 4).
\* A tensor of one row takes any box and tail; one of several rows, up to
\* MaxRows, takes them from SeqBoxes and SeqTails.

Boxes ==
  { <<500000, 500000, 500000, 500000>>,      \* in the middle of the image
    <<500000, 500000, 200000, 200000>>,      \* (0.5, 0.5, 0.2, 0.2)
    <<500000, 500000, 1000, 500000>>,        \* a thousandth of the width wide
    <<900000, 500000, 500000, 500000>>,      \* over the right edge
    <<3000000, 2000000, 2000000, 2000000>> } \* pixel coordinates

Tails ==
  { <<900000, -1000000, 0>>,
    <<900000, 3000000, 0>>,
    <<200000, 1200000, 0>>,
    <<240000, 250000, 0>>,
    <<249999, 0, 0>>,
    <<499999, 0, 0>>,
    <<1200000, 1000000, 900000>>,
    <<500000, 2500000, 1000000>>,
    <<900000, 800000, 900000>>,
    <<100000, 200000, 900000>>,
    <<900000, 800000, 800000>> }

SeqBoxes ==
  { <<500000, 500000, 500000, 500000>>,
    <<500000, 500000, 1000, 500000>> }

SeqTails ==
  { <<240000, 250000, 0>>,
    <<500000, 2500000, 1000000>>,
    <<900000, 800000, 900000>> }

\* a row of v values: box, tail, zeros
MakeRow(b, t, v) ==
  [i \in 1..v |-> IF i <= 4 THEN b[i] ELSE IF i <= 7 THEN t[i - 4] ELSE 0]

RowsOf(v) == { MakeRow(b, t, v) : b \in Boxes, t \in Tails }

SeqRowsOf(v) == { MakeRow(b, t, v) : b \in SeqBoxes, t \in SeqTails }

RowLists(v) ==
  {<<>>} \cup { <<row>> : row \in RowsOf(v) }
         \cup UNION { [1..n -> SeqRowsOf(v)] : n \in 2..MaxRows }

Tensors ==
  UNION { { [shape |-> <<1, Len(rows), NumValuesSimple>>, data |-> rows],
            [shape |-> <<1, NumValuesSimple, Len(rows)>>, data |-> Transpose(rows, Len(rows), NumValuesSimple)],
            [shape |-> <<Len(rows), NumValuesSimple>>, data |-> rows],
            [shape |-> <<1, 1, Len(rows), NumValuesSimple>>, data |-> <<rows>>] } :
          rows \in RowLists(NumValuesSimple) }
  \cup
  UNION { { [shape |-> <<1, Len(rows), NumValuesYolo>>, data |-> rows],
            [shape |-> <<1, NumValuesYolo, Len(rows)>>, data |-> Transpose(rows, Len(rows), NumValuesYolo)] } :
          rows \in RowLists(NumValuesYolo) }

Images ==
  { [width |-> 4, height |-> 4], [width |-> 8, height |-> 4],
    [width |-> 100, height |-> 200] }

\* Config.DETECTION_CONFIDENCE: float(os.getenv("DETECTION_CONFIDENCE", "0.5"))
DETECTION_CONFIDENCE == Unit \div 2
ConfidenceSettings == { Unit \div 4, DETECTION_CONFIDENCE, 3 * (Unit \div 4) }

LabelDicts == { 0 :> "a" @@ 1 :> "b" }

NoImage == [width |-> 0, height |-> 0]
NoTensor == [shape |-> <<>>, data |-> <<>>]
NoInference == [by |-> "none", status |-> 0, detections |-> <<>>]

NoUpload == [ctype |-> "", ext |-> "", size |-> 0]
NoVerdict == -1
NoUpstream == [art |-> "none"]
NoBody == <<>>
NoResponse == [total_detections |-> -1]
NoHealth == [status |-> "none"]

\* no validate_image call and no failing load is being looked at
NoCall ==
  /\ upload = NoUpload
  /\ verdict = NoVerdict
  /\ upstream = NoUpstream
  /\ body = NoBody
  /\ response = NoResponse
  /\ health = NoHealth

\* the service with no inference under way
Init ==
  /\ InitService
  /\ image = NoImage
  /\ output_data = NoTensor
  /\ labels = <<>>
  /\ inference = NoInference
  /\ detection_confidence = DETECTION_CONFIDENCE
  /\ NoCall

InitDecode ==
  /\ InitService
  /\ image \in Images
  /\ output_data \in Tensors
  /\ labels \in LabelDicts
  /\ inference = NoInference
  /\ detection_confidence \in ConfidenceSettings
  /\ NoCall

InferFixed ==
  /\ inference = NoInference
  /\ inference' = [by |-> "fixed"] @@ RunInferenceFixed(output_data, image, labels)
  /\ UNCHANGED <<svcVars, procVars, image, output_data, labels,
                 detection_confidence, upload, verdict, upstream, body,
                 response, health>>

InferOrig ==
  /\ inference = NoInference
  /\ inference' = [by |-> "orig"] @@ RunInferenceOrig(output_data, image, labels)
  /\ UNCHANGED <<svcVars, procVars, image, output_data, labels,
                 detection_confidence, upload, verdict, upstream, body,
                 response, health>>

\* process_detection after run_inference returned: the DetectionResponse
\* (its filename and model_info do not depend on the detections)
DetectionResponse(detections) ==
  [detections |-> detections, total_detections |-> Len(detections)]

BuildResponse ==
  /\ inference.by = "fixed"
  /\ inference.status = 200
  /\ response = NoResponse
  /\ response' = DetectionResponse(inference.detections)
  /\ UNCHANGED <<svcVars, procVars, image, output_data, labels, inference,
                 detection_confidence, upload, verdict, upstream, body,
                 health>>

NextDecode == InferFixed \/ InferOrig \/ BuildResponse

SpecDecode == InitDecode /\ [][NextDecode]_vars

\* --------------------------------------------- initialize_all_models

\* `for model_type in self.hf_urls.keys(): try: initialize_model_resources`
StartupLoop ==
  /\ pc[Startup] = "startup_loop"
  /\ Scheduled(Startup)
  /\ IF si <= Len(StartupKeys)
       THEN /\ key' = [key EXCEPT ![Startup] = StartupKeys[si]]
            /\ ret' = [ret EXCEPT ![Startup] = "startup"]
            /\ Goto(Startup, "init")
       ELSE /\ pc' = [pc EXCEPT ![Startup] = "done"]
            /\ running' = NoProc
            /\ UNCHANGED <<key, ret>>
  /\ UNCHANGED <<svcVars, route, rv, si, mdl, lbl, meta, out, exc, resp,
                 reqDl, coldAt, pending>>
  /\ UNCHANGED decVars

\* the end of one iteration: the call returned, or `except Exception as e`
\* printed the warning
StartupNext ==
  /\ pc[Startup] = "startup_next"
  /\ Scheduled(Startup)
  /\ si' = si + 1
  /\ exc' = [exc EXCEPT ![Startup] = NoExc]
  /\ Goto(Startup, "startup_loop")
  /\ UNCHANGED <<svcVars, key, route, ret, rv, mdl, lbl, meta, out, resp,
                 reqDl, coldAt, pending>>
  /\ UNCHANGED decVars

\* ----------------------------------------- initialize_model_resources

\* `if model_type not in self.hf_urls: raise HTTPException(400, ...)`
InitCheck(p) ==
  /\ pc[p] = "init"
  /\ Scheduled(p)
  /\ IF IsRegistered(key[p])
       THEN Goto(p, "init_model") /\ UNCHANGED <<exc, resp, ret, rv>>
       ELSE Raise(p, 400, "Invalid model type")
  /\ UNCHANGED <<svcVars, key, route, si, mdl, lbl, meta, out, reqDl,
                 coldAt, pending>>
  /\ UNCHANGED decVars

\* `if model_type not in self.<cache>:` before each of the three loads
InitGuard(p, art) ==
  /\ pc[p] = "init_" \o art
  /\ Scheduled(p)
  /\ IF InCache(CacheOf(art), key[p])
       THEN Goto(p, IF art = "model" THEN "init_labels"
                    ELSE IF art = "labels" THEN "init_metadata"
                    ELSE "init_return")
       ELSE Goto(p, "load_" \o art)
  /\ UNCHANGED <<svcVars, key, route, ret, rv, si, mdl, lbl, meta, out,
                 exc, resp, reqDl, coldAt, pending>>
  /\ UNCHANGED decVars

\* load_model / load_labels / load_metadata up to the call of download_file,
\* and download_file up to requests.get: the cache is checked first, then the
\* GET is sent and the thread blocks in it.
LoadStart(p, art) ==
  /\ pc[p] = "load_" \o art
  /\ Scheduled(p)
  /\ IF InCache(CacheOf(art), key[p])
       THEN /\ rv' = [rv EXCEPT ![p] = CacheOf(art)[key[p]]]
            /\ Goto(p, "store_" \o art)
            /\ UNCHANGED <<dlStarted, reqDl>>
       ELSE /\ dlStarted' = [dlStarted EXCEPT ![key[p]][art] = @ + 1]
            /\ reqDl' = [reqDl EXCEPT ![p][art] = @ + 1]
            /\ rv' = [rv EXCEPT ![p] = dlStarted[key[p]][art] + 1]
            /\ pc' = [pc EXCEPT ![p] = "dl_" \o art]
            /\ running' = AfterCall(p)
  /\ UNCHANGED <<models_cache, labels_cache, metadata_cache, meta_nondoc,
                 tempfiles, interp, key, route, ret, si, mdl, lbl, meta,
                 out, exc, resp, coldAt, pending>>
  /\ UNCHANGED decVars

\* download_file from the response on.  "ok": the body is written to a
\* NamedTemporaryFile(delete=False) and its path returned.  "http": timeout,
\* non-2xx or network error.  "save": the file was created and writing it
\* failed.  Either failure is raised as 500 and re-raised as 500 by the
\* loader's `except Exception`.
DownloadOutcomes == {"ok", "http", "save"}

DownloadFile(p, art, outcome) ==
  /\ pc[p] = "dl_" \o art
  /\ Scheduled(p)
  /\ tempfiles' = IF outcome = "http" THEN tempfiles
                  ELSE tempfiles \cup {<<key[p], art, rv[p]>>}
  /\ IF outcome = "ok"
       THEN /\ Goto(p, IF art = "model" THEN "build_model"
                       ELSE "parse_" \o art)
            /\ UNCHANGED <<exc, resp, ret, rv>>
       ELSE Raise(p, 500, "Error loading " \o art)
  /\ UNCHANGED <<models_cache, labels_cache, metadata_cache, meta_nondoc,
                 dlStarted, interp, key, route, si, mdl, lbl, meta, out,
                 reqDl, coldAt, pending>>
  /\ UNCHANGED decVars

\* load_model after the download: `YOLO(temp_path)`, the cache entry, return.
\* The scratch file is kept ("keep temp file for model to use").
BuildModel(p, ok) ==
  /\ pc[p] = "build_model"
  /\ Scheduled(p)
  /\ IF ok
       THEN /\ models_cache' = CachePut(models_cache, key[p], rv[p])
            /\ interp' = (<<key[p], rv[p]>> :> [inp |-> NoProc, out |-> NoProc])
                         @@ interp
            /\ Goto(p, "store_model")
            /\ UNCHANGED <<exc, resp, ret, rv>>
       ELSE /\ Raise(p, 500, "Error loading model")
            /\ UNCHANGED <<models_cache, interp>>
  /\ UNCHANGED <<labels_cache, metadata_cache, meta_nondoc, dlStarted,
                 tempfiles, key, route, si, mdl, lbl, meta, out, reqDl,
                 coldAt, pending>>
  /\ UNCHANGED decVars

\* load_labels after the download: json.load, `{int(k): v ...}`, the cache
\* entry, os.unlink, return.  "syntax": JSONDecodeError; "shape": the JSON is
\* no object of integer-string keys, and .items() or int(k) raised.
\* os.unlink is reached only on success.
ParseOutcomes == {"ok", "syntax", "shape"}

ParseLabels(p, outcome) ==
  /\ pc[p] = "parse_labels"
  /\ Scheduled(p)
  /\ IF outcome = "ok"
       THEN /\ labels_cache' = CachePut(labels_cache, key[p], rv[p])
            /\ tempfiles' = tempfiles \ {<<key[p], "labels", rv[p]>>}
            /\ Goto(p, "store_labels")
            /\ UNCHANGED <<exc, resp, ret, rv>>
       ELSE /\ Raise(p, 500, IF outcome = "syntax"
                               THEN "Invalid JSON in labels file"
                               ELSE "Error loading labels")
            /\ UNCHANGED <<labels_cache, tempfiles>>
  /\ UNCHANGED <<models_cache, metadata_cache, meta_nondoc, dlStarted,
                 interp, key, route, si, mdl, lbl, meta, out, reqDl, coldAt,
                 pending>>
  /\ UNCHANGED decVars

\* load_metadata after the download: yaml.safe_load, the cache entry,
\* os.unlink, return.  "syntax": YAMLError.  "shape": the YAML is valid and
\* is not a mapping (a list, a scalar, an empty file): safe_load returns it
\* and it is cached like any other value.
ParseMetadata(p, outcome) ==
  /\ pc[p] = "parse_metadata"
  /\ Scheduled(p)
  /\ IF outcome = "syntax"
       THEN /\ Raise(p, 500, "Invalid YAML in metadata file")
            /\ UNCHANGED <<metadata_cache, meta_nondoc, tempfiles>>
       ELSE /\ metadata_cache' = CachePut(metadata_cache, key[p], rv[p])
            /\ meta_nondoc' = IF outcome = "shape"
                                THEN meta_nondoc \cup {<<key[p], rv[p]>>}
                                ELSE meta_nondoc
            /\ tempfiles' = tempfiles \ {<<key[p], "metadata", rv[p]>>}
            /\ Goto(p, "store_metadata")
            /\ UNCHANGED <<exc, resp, ret, rv>>
  /\ UNCHANGED <<models_cache, labels_cache, dlStarted, interp, key, route,
                 si, mdl, lbl, meta, out, reqDl, coldAt, pending>>
  /\ UNCHANGED decVars

\* `self.<cache>[model_type] = self.load_<art>(model_type)`: the returned
\* object is stored once more.
InitStore(p, art) ==
  /\ pc[p] = "store_" \o art
  /\ Scheduled(p)
  /\ models_cache' = IF art = "model"
                       THEN CachePut(models_cache, key[p], rv[p])
                       ELSE models_cache
  /\ labels_cache' = IF art = "labels"
                       THEN CachePut(labels_cache, key[p], rv[p])
                       ELSE labels_cache
  /\ metadata_cache' = IF art = "metadata"
                         THEN CachePut(metadata_cache, key[p], rv[p])
                         ELSE metadata_cache
  /\ rv' = [rv EXCEPT ![p] = Absent]
  /\ Goto(p, IF art = "model" THEN "init_labels"
             ELSE IF art = "labels" THEN "init_metadata"
             ELSE "init_return")
  /\ UNCHANGED <<meta_nondoc, dlStarted, tempfiles, interp, key, route, ret,
                 si, mdl, lbl, meta, out, exc, resp, reqDl, coldAt, pending>>
  /\ UNCHANGED decVars

\* ------------------------------------------------------ validate_image

MAX_FILE_SIZE == 10485760
AllowedTypes == {"image/jpeg", "image/jpg", "image/png", "image/bmp", "image/tiff"}
ExtraTypes == {"image/pjpeg", "image/x-png", "image/x-bmp", "image/gif", "image/webp"}
AllowedExts == {".jpg", ".jpeg", ".png", ".bmp", ".tiff", ".gif", ".webp"}

\* Uploads: the content type (lower-cased and stripped), the filename's
\* extension (lower-cased), the declared size (0: none declared).
Uploads == [ctype : {"image/jpeg", "image/gif", "text/plain"},
            ext : {".jpg", ".txt"},
            size : {0, MAX_FILE_SIZE, MAX_FILE_SIZE + 1}]

\* validate_image: 0 when the upload is accepted, else the status raised.
ValidateImage(u) ==
  LET is_valid_type == u.ctype \in AllowedTypes \cup ExtraTypes
      is_valid_ext == u.ext \in AllowedExts
  IN IF ~is_valid_type /\ ~is_valid_ext THEN 400
     ELSE IF u.size # 0 /\ u.size > MAX_FILE_SIZE THEN 400
     ELSE 0

\* validate_image on its own: every content type of either list, one that is
\* on neither and none; every extension of the list, one that is not and
\* none; no declared size, a small one, the limit and one byte more.
AllUploads == [ctype : AllowedTypes \cup ExtraTypes \cup {"text/plain", ""},
               ext : AllowedExts \cup {".txt", ""},
               size : {0, 1, MAX_FILE_SIZE, MAX_FILE_SIZE + 1}]

InitValidate ==
  /\ InitService
  /\ image = NoImage
  /\ output_data = NoTensor
  /\ labels = <<>>
  /\ inference = NoInference
  /\ detection_confidence = DETECTION_CONFIDENCE
  /\ upload \in AllUploads
  /\ verdict = NoVerdict
  /\ upstream = NoUpstream
  /\ body = NoBody
  /\ response = NoResponse
  /\ health = NoHealth

CallValidateImage ==
  /\ verdict = NoVerdict
  /\ verdict' = ValidateImage(upload)
  /\ UNCHANGED <<svcVars, procVars, image, output_data, labels, inference,
                 detection_confidence, upload, upstream, body, response,
                 health>>

NextValidate == CallValidateImage

SpecValidate == InitValidate /\ [][NextValidate]_vars

\* ------------------------------------- what a failing load tells the client

\* Where an artifact's URL points (HF_URLS is read from the environment) and
\* what the exception says, per failure: "http" requests.RequestException
\* (timeout, non-2xx, network error), "save" writing the scratch file,
\* "parse" the loader's parser or YOLO(...).
UpstreamUrls == {"https://huggingface.co/x", "http://10.0.0.7:8080/x"}
Failures == {"http", "save", "parse"}
ExcTexts(kind) ==
  CASE kind = "http" -> {"Read timed out.", "404 Client Error: Not Found"}
    [] kind = "save" -> {"No space left on device", "Permission denied"}
    [] kind = "parse" -> {"Expecting value: line 1 column 1 (char 0)",
                          "Extra data: line 2 column 1 (char 9)"}

\* str() of an HTTPException: the installed Starlette decides between the
\* empty string (no __str__, no args) and "<status>: <detail>".
StrForms == {"empty", "status_detail"}
StrHTTPException(form, status, detail) ==
  IF form = "empty" THEN "" ELSE ToString(status) \o ": " \o detail

\* download_file's except branches
DownloadDetail(kind, url, text) ==
  IF kind = "http"
    THEN "Error downloading file from " \o url \o ": " \o text
    ELSE "Error saving downloaded file: " \o text

\* the detail of the HTTPException that load_model / load_labels /
\* load_metadata raises: a download_file failure is caught by their
\* `except Exception`, a parser failure by the branch of its own
LoadDetail(art, kind, url, text, form) ==
  LET cause == IF kind = "parse" THEN text
               ELSE StrHTTPException(form, 500, DownloadDetail(kind, url, text))
  IN CASE art = "model" -> "Error loading model: " \o cause
       [] art = "labels" /\ kind = "parse" -> "Invalid JSON in labels file: " \o cause
       [] art = "labels" -> "Error loading labels: " \o cause
       [] art = "metadata" /\ kind = "parse" -> "Invalid YAML in metadata file: " \o cause
       [] art = "metadata" -> "Error loading metadata: " \o cause

\* an error answer that carries a detections field
ErrorBodyWithDetections(k, status, detail) ==
  [status_code |-> status, error |-> detail, model_type |-> k,
   detections |-> <<>>]

\* detect_cats / detect_dogs, `except HTTPException`: the status and the
\* ErrorResponse built from the exception's detail
ErrorBody(k, status, detail) ==
  [status_code |-> status, error |-> detail, model_type |-> k]

\* Two runs of one request whose load of `art` fails in the same way; they
\* differ at most in the URL and in the exception's text.
UpstreamRuns ==
  UNION { [art : {a}, kind : {f}, key : Registered, form : StrForms,
           url : UpstreamUrls \X UpstreamUrls,
           text : ExcTexts(f) \X ExcTexts(f)] : a \in Arts, f \in Failures }

InitUpstream ==
  /\ InitService
  /\ image = NoImage
  /\ output_data = NoTensor
  /\ labels = <<>>
  /\ inference = NoInference
  /\ detection_confidence = DETECTION_CONFIDENCE
  /\ upload = NoUpload
  /\ verdict = NoVerdict
  /\ upstream \in UpstreamRuns
  /\ body = NoBody
  /\ response = NoResponse
  /\ health = NoHealth

\* both runs are answered
AnswerFailure ==
  /\ body = NoBody
  /\ body' = [i \in 1..2 |->
                ErrorBody(upstream.key, 500,
                          LoadDetail(upstream.art, upstream.kind, upstream.url[i],
                                     upstream.text[i], upstream.form))]
  /\ UNCHANGED <<svcVars, procVars, image, output_data, labels, inference,
                 detection_confidence, upload, verdict, upstream, response,
                 health>>

NextUpstream == AnswerFailure

SpecUpstream == InitUpstream /\ [][NextUpstream]_vars

\* -------------------------------------------------------- health_check

\* The caches a health check can find.  A key's artifacts are loaded in the
\* order model, labels, metadata, so what is cached of a key is a prefix of
\* that order; an entry is the number of the download it came from.  The
\* model's scratch file is still on disk.
MaxDownloads == 2
Loaded == <<"model", "labels", "metadata">>
KeyCaches ==
  UNION { [{Loaded[i] : i \in 1..n} -> 1..MaxDownloads] : n \in 0..Len(Loaded) }
CacheStates == [Registered -> KeyCaches]
CacheFrom(cs, art) ==
  [k \in Keys |-> IF k \in Registered /\ art \in DOMAIN cs[k] THEN cs[k][art]
                  ELSE Absent]

InitHealth ==
  /\ \E cs \in CacheStates :
       /\ models_cache = CacheFrom(cs, "model")
       /\ labels_cache = CacheFrom(cs, "labels")
       /\ metadata_cache = CacheFrom(cs, "metadata")
       /\ dlStarted = [k \in Registered |->
                         [a \in Arts |-> IF a \in DOMAIN cs[k] THEN cs[k][a] ELSE 0]]
       /\ interp = [h \in {<<k, cs[k]["model"]>> : k \in {q \in Registered : "model" \in DOMAIN cs[q]}}
                      |-> [inp |-> NoProc, out |-> NoProc]]
  /\ meta_nondoc = {}
  /\ tempfiles = {<<k, "model", models_cache[k]>> : k \in {q \in Keys : InCache(models_cache, q)}}
  /\ running = NoProc
  /\ pc = [p \in Procs |-> IF p = Startup THEN "done" ELSE "new"]
  /\ key = [p \in Procs |-> "cats"]
  /\ route = [r \in Reqs |-> "detect"]
  /\ ret = [p \in Procs |-> "none"]
  /\ rv = [p \in Procs |-> Absent]
  /\ si = Len(StartupKeys) + 1
  /\ mdl = [r \in Reqs |-> Absent]
  /\ lbl = [r \in Reqs |-> Absent]
  /\ meta = [r \in Reqs |-> Absent]
  /\ out = [r \in Reqs |-> NoProc]
  /\ exc = [p \in Procs |-> NoExc]
  /\ resp = [r \in Reqs |-> 0]
  /\ reqDl = [p \in Procs |-> [a \in Arts |-> 0]]
  /\ coldAt = [r \in Reqs |-> {"unset"}]
  /\ pending = [r \in Reqs |-> {}]
  /\ image = NoImage
  /\ output_data = NoTensor
  /\ labels = <<>>
  /\ inference = NoInference
  /\ detection_confidence = DETECTION_CONFIDENCE
  /\ NoCall

\* a health check that reports every registered key as loaded
LoadedModelsAll(cache) == Registered

\* list(model_service.models_cache.keys())
LoadedModels(cache) == {k \in Keys : InCache(cache, k)}

\* MainController.health_check, run by the loop between two requests
HealthCheck ==
  /\ health = NoHealth
  /\ running = NoProc
  /\ health' = [status |-> "healthy",
                models_loaded |-> LoadedModels(models_cache),
                available_models |-> Registered]
  /\ UNCHANGED <<svcVars, procVars, image, output_data, labels, inference,
                 detection_confidence, upload, verdict, upstream, body,
                 response>>

NextHealth == HealthCheck

SpecHealth == InitHealth /\ [][NextHealth]_vars

\* ------------------------------- process_detection, debug_model_output

\* A request is taken up by the loop: detect_cats / detect_dogs fix the key,
\* /detect/debug/{model_type} takes any string.  validate_image runs, then
\* `await file.read()` yields the thread.  Requests are numbered in the
\* order the loop takes them up.
Validate(r, k, rt, u) ==
  /\ pc[r] = "new"
  /\ Scheduled(r)
  /\ \A q \in Reqs : q < r => pc[q] # "new"
  /\ rt = "detect" => k \in Registered
  /\ key' = [key EXCEPT ![r] = k]
  /\ route' = [route EXCEPT ![r] = rt]
  /\ IF ValidateImage(u) = 0
       THEN /\ pc' = [pc EXCEPT ![r] = "reading"]
            /\ running' = NoProc
            /\ UNCHANGED <<exc, resp, ret, rv>>
       ELSE /\ exc' = [exc EXCEPT ![r] = [status |-> ValidateImage(u),
                                         detail |-> "Invalid upload"]]
            /\ pc' = [pc EXCEPT ![r] = "done"]
            /\ running' = NoProc
            /\ resp' = [resp EXCEPT ![r] = ClientStatus(rt, ValidateImage(u))]
            /\ UNCHANGED <<ret, rv>>
  /\ UNCHANGED <<svcVars, si, mdl, lbl, meta, out, reqDl, coldAt, pending>>
  /\ UNCHANGED decVars

\* file.read() returned and the loop resumes the coroutine
Resume(r) ==
  /\ pc[r] = "reading"
  /\ Scheduled(r)
  /\ Goto(r, "open")
  /\ UNCHANGED <<svcVars, key, route, ret, rv, si, mdl, lbl, meta, out, exc,
                 resp, reqDl, coldAt, pending>>
  /\ UNCHANGED decVars

\* Image.open and convert('RGB'); bytes that are no image raise, and
\* process_detection wraps what is not an HTTPException as 500.
OpenImage(r, ok) ==
  /\ pc[r] = "open"
  /\ Scheduled(r)
  /\ IF ok
       THEN Goto(r, "get_model") /\ UNCHANGED <<exc, resp, ret, rv>>
       ELSE Raise(r, 500, "Error processing image")
  /\ UNCHANGED <<svcVars, key, route, si, mdl, lbl, meta, out, reqDl,
                 coldAt, pending>>
  /\ UNCHANGED decVars

Uncached(k) == {a \in Arts : ~InCache(CacheOf(a), k)}

\* get_model: `if model_type not in self.models_cache: initialize...`
GetModel(r) ==
  /\ pc[r] = "get_model"
  /\ Scheduled(r)
  /\ coldAt' = [coldAt EXCEPT ![r] = Uncached(key[r])]
  /\ pending' = [pending EXCEPT ![r] = {q \in Reqs \ {r} : pc[q] = "reading"}]
  /\ IF InCache(models_cache, key[r])
       THEN /\ mdl' = [mdl EXCEPT ![r] = models_cache[key[r]]]
            /\ Goto(r, "get_labels")
            /\ ret' = ret
       ELSE /\ ret' = [ret EXCEPT ![r] = "get_model"]
            /\ Goto(r, "init")
            /\ mdl' = mdl
  /\ UNCHANGED <<svcVars, key, route, rv, si, lbl, meta, out, exc, resp,
                 reqDl>>
  /\ UNCHANGED decVars

AfterLabels(rt) == IF rt = "debug" THEN "set_tensor" ELSE "get_metadata"

\* get_labels
GetLabels(r) ==
  /\ pc[r] = "get_labels"
  /\ Scheduled(r)
  /\ IF InCache(labels_cache, key[r])
       THEN /\ lbl' = [lbl EXCEPT ![r] = labels_cache[key[r]]]
            /\ Goto(r, AfterLabels(route[r]))
            /\ ret' = ret
       ELSE /\ ret' = [ret EXCEPT ![r] = "get_labels"]
            /\ Goto(r, "init")
            /\ lbl' = lbl
  /\ UNCHANGED <<svcVars, key, route, rv, si, mdl, meta, out, exc, resp,
                 reqDl, coldAt, pending>>
  /\ UNCHANGED decVars

\* get_metadata
GetMetadata(r) ==
  /\ pc[r] = "get_metadata"
  /\ Scheduled(r)
  /\ IF InCache(metadata_cache, key[r])
       THEN /\ meta' = [meta EXCEPT ![r] = metadata_cache[key[r]]]
            /\ Goto(r, "set_tensor")
            /\ ret' = ret
       ELSE /\ ret' = [ret EXCEPT ![r] = "get_metadata"]
            /\ Goto(r, "init")
            /\ meta' = meta
  /\ UNCHANGED <<svcVars, key, route, rv, si, mdl, lbl, out, exc, resp,
                 reqDl, coldAt, pending>>
  /\ UNCHANGED decVars

\* initialize_model_resources returned: initialize_all_models goes on with
\* the next key; get_<x> does `return self.<x>_cache[model_type]`.
InitReturn(p) ==
  /\ pc[p] = "init_return"
  /\ Scheduled(p)
  /\ mdl' = IF ret[p] = "get_model"
              THEN [mdl EXCEPT ![p] = models_cache[key[p]]] ELSE mdl
  /\ lbl' = IF ret[p] = "get_labels"
              THEN [lbl EXCEPT ![p] = labels_cache[key[p]]] ELSE lbl
  /\ meta' = IF ret[p] = "get_metadata"
               THEN [meta EXCEPT ![p] = metadata_cache[key[p]]] ELSE meta
  /\ ret' = [ret EXCEPT ![p] = "none"]
  /\ Goto(p, CASE ret[p] = "startup" -> "startup_next"
               [] ret[p] = "get_model" -> "get_labels"
               [] ret[p] = "get_labels" -> AfterLabels(route[p])
               [] ret[p] = "get_metadata" -> "set_tensor")
  /\ UNCHANGED <<svcVars, key, route, rv, si, out, exc, resp, reqDl,
                 coldAt, pending>>
  /\ UNCHANGED decVars

Handle(r) == <<key[r], mdl[r]>>

\* interpreter.set_tensor(input_details[0]['index'], input_data)
SetTensor(r) ==
  /\ pc[r] = "set_tensor"
  /\ Scheduled(r)
  /\ interp' = [interp EXCEPT ![Handle(r)].inp = r]
  /\ Goto(r, "invoke")
  /\ UNCHANGED <<models_cache, labels_cache, metadata_cache, meta_nondoc,
                 dlStarted, tempfiles, key, route, ret, rv, si, mdl, lbl,
                 meta, out, exc, resp, reqDl, coldAt, pending>>
  /\ UNCHANGED decVars

\* interpreter.invoke(): the output tensor is computed from the input tensor
Invoke(r) ==
  /\ pc[r] = "invoke"
  /\ Scheduled(r)
  /\ interp' = [interp EXCEPT ![Handle(r)].out = interp[Handle(r)].inp]
  /\ pc' = [pc EXCEPT ![r] = "get_tensor"]
  /\ running' = AfterInvoke(r)
  /\ UNCHANGED <<models_cache, labels_cache, metadata_cache, meta_nondoc,
                 dlStarted, tempfiles, key, route, ret, rv, si, mdl, lbl,
                 meta, out, exc, resp, reqDl, coldAt, pending>>
  /\ UNCHANGED decVars

\* interpreter.get_tensor(output_details[0]['index'])
GetTensor(r) ==
  /\ pc[r] = "get_tensor"
  /\ Scheduled(r)
  /\ out' = [out EXCEPT ![r] = interp[Handle(r)].out]
  /\ Goto(r, IF route[r] = "debug" THEN "respond" ELSE "decode")
  /\ UNCHANGED <<svcVars, key, route, ret, rv, si, mdl, lbl, meta, exc,
                 resp, reqDl, coldAt, pending>>
  /\ UNCHANGED decVars

\* run_inference from the output tensor on: the rows are decoded, or an
\* exception (a shape that is not rank 3, a Detection that fails validation)
\* is re-raised as 500 "Error during inference".
Decode(r, ok) ==
  /\ pc[r] = "decode"
  /\ Scheduled(r)
  /\ IF ok
       THEN Goto(r, "respond") /\ UNCHANGED <<exc, resp, ret, rv>>
       ELSE Raise(r, 500, "Error during inference")
  /\ UNCHANGED <<svcVars, key, route, si, mdl, lbl, meta, out, reqDl,
                 coldAt, pending>>
  /\ UNCHANGED decVars

\* The response.  process_detection builds ModelInfo(**metadata), which
\* raises for a metadata object that is no mapping; debug_model_output
\* returns its debug_info.
Respond(r) ==
  /\ pc[r] = "respond"
  /\ Scheduled(r)
  /\ IF route[r] = "detect" /\ <<key[r], meta[r]>> \in meta_nondoc
       THEN Raise(r, 500, "Error processing image")
       ELSE /\ pc' = [pc EXCEPT ![r] = "done"]
            /\ running' = NoProc
            /\ resp' = [resp EXCEPT ![r] = 200]
            /\ UNCHANGED <<exc, ret, rv>>
  /\ UNCHANGED <<svcVars, key, route, si, mdl, lbl, meta, out, reqDl,
                 coldAt, pending>>
  /\ UNCHANGED decVars

\* What detect_cats / detect_dogs return for a finished request: the
\* DetectionResponse with status 200, or the ErrorResponse of the exception
\* that process_detection let through, with its status.
ControllerAnswer(r) ==
  IF exc[r] = NoExc THEN [status_code |-> 200, detections |-> out[r]]
  ELSE ErrorBody(key[r], exc[r].status, exc[r].detail)

\* ------------------------------------------------------------- Next

Next ==
  \/ StartupLoop
  \/ StartupNext
  \/ \E p \in Procs : InitCheck(p)
  \/ \E p \in Procs, a \in Arts : InitGuard(p, a)
  \/ \E p \in Procs, a \in Arts : LoadStart(p, a)
  \/ \E p \in Procs, a \in Arts, o \in DownloadOutcomes : DownloadFile(p, a, o)
  \/ \E p \in Procs, ok \in BOOLEAN : BuildModel(p, ok)
  \/ \E p \in Procs, o \in ParseOutcomes : ParseLabels(p, o)
  \/ \E p \in Procs, o \in ParseOutcomes : ParseMetadata(p, o)
  \/ \E p \in Procs, a \in Arts : InitStore(p, a)
  \/ \E p \in Procs : InitReturn(p)
  \/ \E r \in Reqs, k \in Keys, rt \in Routes, u \in Uploads : Validate(r, k, rt, u)
  \/ \E r \in Reqs : Resume(r)
  \/ \E r \in Reqs, ok \in BOOLEAN : OpenImage(r, ok)
  \/ \E r \in Reqs : GetModel(r)
  \/ \E r \in Reqs : GetLabels(r)
  \/ \E r \in Reqs : GetMetadata(r)
  \/ \E r \in Reqs : SetTensor(r)
  \/ \E r \in Reqs : Invoke(r)
  \/ \E r \in Reqs : GetTensor(r)
  \/ \E r \in Reqs, ok \in BOOLEAN : Decode(r, ok)
  \/ \E r \in Reqs : Respond(r)

Spec == Init /\ [][Next]_vars

\* -------------------------------------------------------- properties

\* r has called get_model
Acquired(r) == "unset" \notin coldAt[r]

\* r's acquisition returned its bundle (debug_model_output takes no metadata)
AcqOk(r) ==
  /\ Acquired(r)
  /\ mdl[r] # Absent
  /\ lbl[r] # Absent
  /\ route[r] = "detect" => meta[r] # Absent

\* a and b asked for the same key while it was not cached: b was awaiting its
\* read when a called get_model and found the model missing
ConcurrentFirstTime(a, b) ==
  /\ a # b
  /\ b \in pending[a]
  /\ key[a] = key[b]
  /\ "model" \in coldAt[a]

\* C1: of two callers that ask concurrently for the same key while it is not
\* cached, only one starts a download of any of its artifacts.
C1_OneFetchForConcurrentCallers ==
  \A a \in Reqs, b \in Reqs :
    ConcurrentFirstTime(a, b) =>
      \A art \in Arts : reqDl[a][art] + reqDl[b][art] <= 1

\* C2: concurrent first-time acquisitions of one key end alike: the same
\* bundle for all, or the same error for all.
C2_ConcurrentCallersSameOutcome ==
  \A a \in Reqs, b \in Reqs :
    (/\ ConcurrentFirstTime(a, b)
     /\ pc[a] = "done" /\ pc[b] = "done"
     /\ Acquired(b)) =>
      \/ /\ AcqOk(a) /\ AcqOk(b)
         /\ mdl[a] = mdl[b] /\ lbl[a] = lbl[b]
         /\ (route[a] = "detect" /\ route[b] = "detect") => meta[a] = meta[b]
      \/ /\ ~AcqOk(a) /\ ~AcqOk(b)
         /\ exc[a] = exc[b]

\* C3: a cache entry, once present, is never replaced by another object and
\* never removed.
C3_CacheEntriesStable ==
  [][\A k \in Keys :
       /\ models_cache[k] # Absent => models_cache'[k] = models_cache[k]
       /\ labels_cache[k] # Absent => labels_cache'[k] = labels_cache[k]
       /\ metadata_cache[k] # Absent => metadata_cache'[k] = metadata_cache[k]
    ]_vars

\* C3's case: a request went through initialize_model_resources for a key
\* whose model was cached already (labels and metadata were missing) and got
\* its answer.
C3_Witness ==
  \E r \in Reqs :
    /\ resp[r] = 200
    /\ coldAt[r] = {"labels", "metadata"}
    /\ models_cache[key[r]] = mdl[r]

\* C4: two successful acquisitions of one key's bundle (by process_detection)
\* return the same objects, and each artifact is downloaded once over the
\* two: by the first, when it was missing then.  No request downloads an
\* artifact twice.
C4_SecondAcquisitionFromCache ==
  /\ \A r \in Reqs, art \in Arts : reqDl[r][art] <= 1
  /\ \A a \in Reqs, b \in Reqs :
    (/\ a # b /\ key[a] = key[b]
     /\ route[a] = "detect" /\ route[b] = "detect"
     /\ AcqOk(a) /\ AcqOk(b)) =>
      /\ mdl[a] = mdl[b]
      /\ lbl[a] = lbl[b]
      /\ meta[a] = meta[b]
      /\ \A art \in Arts :
           reqDl[a][art] + reqDl[b][art] =
             IF art \in coldAt[a] \cup coldAt[b] THEN 1 ELSE 0

\* C4's case: the first request found nothing cached and downloaded all
\* three artifacts, the second was served from the cache.
C4_Witness ==
  \E a \in Reqs, b \in Reqs :
    /\ a # b /\ key[a] = key[b]
    /\ resp[a] = 200 /\ resp[b] = 200
    /\ route[a] = "detect" /\ route[b] = "detect"
    /\ coldAt[a] = Arts /\ coldAt[b] = {}

InSection(r) == pc[r] \in {"invoke", "get_tensor"}

\* C5: the set_tensor..get_tensor sections of two requests on one key never
\* overlap, and the output tensor a request reads was computed from its own
\* input.
C5_InvokeSerialized ==
  /\ \A a \in Reqs, b \in Reqs :
       (a # b /\ key[a] = key[b]) => ~(InSection(a) /\ InSection(b))
  /\ \A r \in Reqs : out[r] # NoProc => out[r] = r

\* C5's case: two requests on one key that were in flight together have
\* both run the interpreter.
C5_Witness ==
  \E a \in Reqs, b \in Reqs :
    /\ a # b /\ key[a] = key[b]
    /\ b \in pending[a]
    /\ out[a] = a /\ out[b] = b

\* b is inside a download or about to return from interpreter.invoke()
InFetchOrInvoke(b) == pc[b] \in {"dl_model", "dl_labels", "dl_metadata", "invoke"}

\* C6: a request never waits for the fetch or invoke of a request for
\* another key: none has its read done and its continuation held back while
\* such a request has the thread.
C6_NoWaitingAcrossKeys ==
  \A a \in Reqs, b \in Reqs :
    (key[a] # key[b] /\ InFetchOrInvoke(b) /\ running = b) => pc[a] # "reading"

\* the load that asked for scratch file f has not returned yet
LoadInProgress(f) ==
  \E p \in Procs :
    /\ key[p] = f[1]
    /\ rv[p] = f[3]
    /\ pc[p] = (IF f[2] = "model" THEN "build_model" ELSE "parse_" \o f[2])

\* C7: no scratch file outlives the load that created it.
C7_NoScratchFileLeft == \A f \in tempfiles : LoadInProgress(f)

\* C8: acquiring a key that is not registered fails as not-found (404),
\* starts no download and changes no cache.
C8_UnknownKeyNotFound ==
  \A r \in Reqs :
    (pc[r] = "done" /\ Acquired(r) /\ ~IsRegistered(key[r])) =>
      /\ exc[r].status = 404
      /\ \A art \in Arts : reqDl[r][art] = 0
      /\ models_cache[key[r]] = Absent

\* C9: every box run_inference emits, as emitted (rounded to two decimals),
\* has x1 < x2 and y1 < y2 strictly and lies within the image.
C9_EmittedBoxesProper ==
  inference.status = 200 =>
    \A i \in 1..Len(inference.detections) :
      LET bbox == inference.detections[i].bbox
      IN /\ bbox[1] < bbox[3] /\ bbox[2] < bbox[4]
         /\ 0 <= bbox[1] /\ bbox[3] <= 100 * image.width
         /\ 0 <= bbox[2] /\ bbox[4] <= 100 * image.height

\* C10: every Detection of a successful result has a confidence in [0, 1] and
\* a class id that is not negative.
C10_ConfidenceAndClassInRange ==
  inference.status = 200 =>
    \A i \in 1..Len(inference.detections) :
      /\ inference.detections[i].confidence >= 0
      /\ inference.detections[i].confidence <= 10000
      /\ inference.detections[i].class_id >= 0

\* C11: a raw output tensor whose rank is not 3 makes run_inference fail with
\* a server error; no result, not even an empty one, is returned for it.
C11_UnsupportedRankFails ==
  (inference # NoInference /\ Len(output_data.shape) # 3) =>
    inference.status = 500

\* the tensor has one row, in the layout the decoder that ran reads
OneRowRead ==
  /\ inference # NoInference
  /\ Len(output_data.shape) = 3
  /\ IF inference.by = "fixed"
       THEN output_data.shape[2] >= 5 /\ output_data.shape[3] = 1
       ELSE output_data.shape[2] = 1 /\ output_data.shape[3] >= 6

\* that row
RowRead ==
  IF inference.by = "fixed"
    THEN [i \in 1..output_data.shape[2] |-> output_data.data[i][1]]
    ELSE output_data.data[1]

\* its box is the one in the middle of the image
MiddleBox == SubSeq(RowRead, 1, 4) = <<500000, 500000, 500000, 500000>>

\* C12: with the threshold 0.5 of detection_service.py, a [x, y, w, h, conf,
\* class] row with a valid box and confidence exactly 0.5 is in the result
\* and one with confidence 0.499999 is not: the test keeps confidence >=
\* threshold.  detection_service_fixed.py does the same at its threshold 0.25.
C12_ThresholdIsInclusive ==
  (OneRowRead /\ MiddleBox) =>
    /\ (inference.by = "orig" /\ output_data.shape[3] = NumValuesSimple) =>
         /\ (RowRead[5] >= 500000 /\ RowRead[5] <= Unit) =>
              /\ Len(inference.detections) = 1
              /\ inference.detections[1].confidence * 100 >= 500000
         /\ RowRead[5] <= 499999 =>
              inference.status = 200 /\ inference.detections = <<>>
    /\ (inference.by = "fixed" /\ output_data.shape[2] = NumValuesSimple) =>
         /\ (Max(RowRead[5], RowRead[6]) >= 250000
               /\ Max(RowRead[5], RowRead[6]) <= Unit) =>
              Len(inference.detections) = 1
         /\ Max(RowRead[5], RowRead[6]) <= 249999 =>
              inference.status = 200 /\ inference.detections = <<>>

\* C12's case: a row with confidence exactly 0.5 was decoded and is in the
\* result.
C12_Witness ==
  /\ OneRowRead /\ MiddleBox
  /\ inference.by = "orig"
  /\ output_data.shape[3] = NumValuesSimple
  /\ RowRead[5] = 500000
  /\ Len(inference.detections) = 1
  /\ inference.detections[1].confidence = 5000

\* the confidence run_inference computes for the one row read
ConfidenceRead ==
  IF inference.by = "fixed" THEN RowRead[5 + ArgMax(SubSeq(RowRead, 5, Len(RowRead)))]
  ELSE IF Len(RowRead) >= NumValuesYolo
    THEN Mul(RowRead[5], RowRead[6 + ArgMax(SubSeq(RowRead, 6, Len(RowRead)))])
  ELSE RowRead[5]

\* C13: the threshold run_inference applies is the configured
\* DETECTION_CONFIDENCE, whatever the format: no detection below it is
\* returned, and a valid row at or above it is.
C13_ThresholdIsConfigured ==
  /\ \A i \in 1..Len(inference.detections) :
       inference.detections[i].confidence * 100 >= detection_confidence
  /\ (OneRowRead /\ MiddleBox /\ ConfidenceRead >= detection_confidence
        /\ ConfidenceRead <= Unit) =>
       Len(inference.detections) = 1

\* the row read is normalized: cx <= 1 and cy <= 1
NormalizedRead == RowRead[1] <= Unit /\ RowRead[2] <= Unit

\* corner X, in units of 1/(2 * Unit) pixel, brought into [0, bound pixels]
Within(X, bound) ==
  IF X < 0 THEN 0 ELSE IF X > 2 * Unit * bound THEN 2 * Unit * bound ELSE X

\* b, in hundredths of a pixel, is corner X rounded to two decimals
Rounds(b, X) == b * 20000 - X <= 10000 /\ X - b * 20000 <= 10000

ExampleRow == <<500000, 500000, 200000, 200000, 900000, 3000000>>
ExampleImage == [width |-> 100, height |-> 200]

\* the [x, y, w, h, conf, class] decoder ran on the example row and image
ExampleRead ==
  /\ OneRowRead
  /\ inference.by = "orig"
  /\ image = ExampleImage
  /\ RowRead = ExampleRow

\* C14: a decoded normalized row (cx, cy, w, h) of an image W x H has bbox
\* [(cx-w/2)*W, (cy-h/2)*H, (cx+w/2)*W, (cy+h/2)*H], each clamped to the
\* image; a [x, y, w, h, conf, class] row passes its class id and confidence
\* through.  Image 100x200 and row (0.5, 0.5, 0.2, 0.2, 0.9, 3) give bbox
\* [40, 80, 60, 120], class id 3, confidence 0.9.
C14_CoordinateTransform ==
  /\ (OneRowRead /\ NormalizedRead /\ Len(inference.detections) = 1) =>
       LET d == inference.detections[1]
           cx == RowRead[1]
           cy == RowRead[2]
           w == RowRead[3]
           h == RowRead[4]
       IN /\ Rounds(d.bbox[1], Within((2 * cx - w) * image.width, image.width))
          /\ Rounds(d.bbox[2], Within((2 * cy - h) * image.height, image.height))
          /\ Rounds(d.bbox[3], Within((2 * cx + w) * image.width, image.width))
          /\ Rounds(d.bbox[4], Within((2 * cy + h) * image.height, image.height))
          /\ (inference.by = "orig" /\ Len(RowRead) = NumValuesSimple) =>
               /\ RowRead[6] % Unit = 0 => d.class_id * Unit = RowRead[6]
               /\ d.confidence * 100 - RowRead[5] <= 50
               /\ RowRead[5] - d.confidence * 100 <= 50
  /\ ExampleRead =>
       /\ Len(inference.detections) = 1
       /\ inference.detections[1].bbox = <<4000, 8000, 6000, 12000>>
       /\ inference.detections[1].class_id = 3
       /\ inference.detections[1].confidence = 9000

\* C14's case: the example row was decoded for the 100x200 image.
C14_Witness == ExampleRead /\ Len(inference.detections) = 1

\* C14 as the specification words its example: bbox [40, 90, 60, 110].
C14_SpecExample ==
  ExampleRead =>
    /\ Len(inference.detections) = 1
    /\ inference.detections[1].bbox = <<4000, 9000, 6000, 11000>>
    /\ inference.detections[1].class_id = 3
    /\ inference.detections[1].confidence = 9000

\* C18: the format is chosen from the tensor's shape.  A [1, N, 6] tensor is
\* read as rows [cx, cy, w, h, confidence, classId]: it decodes, and every
\* detection carries the class id and confidence of one of its rows.  A
\* [1, 4+C, N] tensor is read as a transposed grid: a prediction with a valid
\* box and a best score of at least 0.5 is in the result.
C18_FormatFromShape ==
  (inference # NoInference /\ Len(output_data.shape) = 3) =>
    /\ (/\ output_data.shape[3] = NumValuesSimple
        /\ output_data.shape[2] >= 1
        /\ \A i \in 1..output_data.shape[2] : output_data.data[i][5] <= Unit) =>
         /\ inference.status = 200
         /\ \A k \in 1..Len(inference.detections) :
              \E i \in 1..output_data.shape[2] :
                /\ inference.detections[k].class_id = IntTrunc(output_data.data[i][6])
                /\ inference.detections[k].confidence = Round(output_data.data[i][5], 100)
    /\ (/\ output_data.shape[2] = NumValuesSimple
        /\ output_data.shape[3] = 1
        /\ [i \in 1..4 |-> output_data.data[i][1]] = <<500000, 500000, 500000, 500000>>
        /\ Max(output_data.data[5][1], output_data.data[6][1]) >= 500000
        /\ Max(output_data.data[5][1], output_data.data[6][1]) <= Unit) =>
         Len(inference.detections) = 1

\* C19: a row with cx > 1 or cy > 1 is in pixel units: it is not multiplied
\* by the image size before the corner conversion and the clamping.  Such a
\* row, when its box lies in the image and its confidence passes, is returned
\* with the corners (cx -+ w/2, cy -+ h/2), clamped.
C19_PixelRowsNotScaled ==
  (OneRowRead /\ ~NormalizedRead) =>
    LET x1 == Within(2 * RowRead[1] - RowRead[3], image.width)
        y1 == Within(2 * RowRead[2] - RowRead[4], image.height)
        x2 == Within(2 * RowRead[1] + RowRead[3], image.width)
        y2 == Within(2 * RowRead[2] + RowRead[4], image.height)
    IN (x1 < x2 /\ y1 < y2 /\ ConfidenceRead >= 500000 /\ ConfidenceRead <= Unit) =>
         /\ Len(inference.detections) = 1
         /\ Rounds(inference.detections[1].bbox[1], x1)
         /\ Rounds(inference.detections[1].bbox[2], y1)
         /\ Rounds(inference.detections[1].bbox[3], x2)
         /\ Rounds(inference.detections[1].bbox[4], y2)

\* r's upload was rejected by validate_image
Rejected(r) == pc[r] = "done" /\ exc[r].detail = "Invalid upload"

\* C15: validation runs before anything else.  A request whose upload
\* validate_image rejects fails with 400 (the status process_detection's
\* caller answers with), and it has read no file, opened no image, looked
\* into no cache, started no download and touched no interpreter; the step
\* that rejects it leaves the caches, the download counts, the scratch
\* files and the interpreters as they were.
C15_ValidationFirst ==
  /\ [](\A r \in Reqs : Rejected(r) =>
          /\ exc[r].status = 400
          /\ route[r] = "detect" => resp[r] = 400
          /\ ~Acquired(r)
          /\ pending[r] = {}
          /\ \A art \in Arts : reqDl[r][art] = 0
          /\ mdl[r] = Absent /\ lbl[r] = Absent /\ meta[r] = Absent
          /\ out[r] = NoProc
          /\ \A h \in DOMAIN interp : interp[h].inp # r /\ interp[h].out # r)
  /\ [][\A r \in Reqs :
          (pc[r] = "new" /\ pc'[r] = "done") => svcVars' = svcVars]_vars

\* C15's case: an upload was rejected on a detection endpoint while the
\* key's model was in the cache.
C15_Witness ==
  \E r \in Reqs :
    /\ Rejected(r)
    /\ route[r] = "detect"
    /\ resp[r] = 400
    /\ models_cache[key[r]] # Absent

\* r's upload passed validate_image and Image.open could not decode its bytes
Undecodable(r) ==
  /\ pc[r] = "done"
  /\ exc[r].detail = "Error processing image"
  /\ ~Acquired(r)

\* C16: an upload that passes validation but whose bytes are no image is
\* answered with a client error (4xx), not with a server error.
C16_UndecodableIsClientError ==
  \A r \in Reqs :
    (Undecodable(r) /\ route[r] = "detect") => resp[r] \in 400..499

\* C17: validate_image accepts an upload only if its content type is in the
\* configured list (config.ALLOWED_FILE_TYPES) or its filename extension is
\* an allowed one, and its declared size is at most MAX_FILE_SIZE; every
\* other upload is refused with 400.  A content type that is not in the
\* configured list does not get an upload accepted by itself; a declared
\* size equal to MAX_FILE_SIZE is accepted.
C17_AcceptsOnlyConfigured ==
  verdict # NoVerdict =>
    /\ verdict \in {0, 400}
    /\ verdict = 0 <=>
         /\ upload.ctype \in AllowedTypes \/ upload.ext \in AllowedExts
         /\ upload.size <= MAX_FILE_SIZE

\* C20: what the client is told about an upstream failure is generic: two
\* runs that differ only in the artifact's URL or in the text of the
\* transport or parse exception get the same response.
C20_GenericUpstreamMessage ==
  body # NoBody => body[1] = body[2]

\* C21: the bundle of a key is not built from a malformed artifact: a
\* metadata file that does not parse to a key/value document makes the load
\* fail, so no such object is ever cached as the key's metadata and no
\* acquisition returns one.
C21_MalformedArtifactFailsBuild ==
  /\ \A k \in Registered :
       metadata_cache[k] # Absent => <<k, metadata_cache[k]>> \notin meta_nondoc
  /\ \A r \in Reqs :
       (AcqOk(r) /\ route[r] = "detect") => <<key[r], meta[r]>> \notin meta_nondoc

\* the class id run_inference takes from the one row it read
ClassRead ==
  IF inference.by = "fixed" THEN ArgMax(SubSeq(RowRead, 5, Len(RowRead)))
  ELSE IF Len(RowRead) >= NumValuesYolo THEN ArgMax(SubSeq(RowRead, 6, Len(RowRead)))
  ELSE IntTrunc(RowRead[6])

\* C22: every returned detection whose class id is in the label map carries
\* exactly the map's label, and every other one carries "Unknown_" followed
\* by the class id in decimal.  A class id that is not in the map is no
\* error: a row with a box in the image and a confidence that passes is
\* returned whatever its class id.
C22_LabelFallback ==
  /\ \A i \in 1..Len(inference.detections) :
       LET d == inference.detections[i]
       IN /\ d.class_id \in DOMAIN labels => d.label = labels[d.class_id]
          /\ d.class_id \notin DOMAIN labels =>
               d.label = "Unknown_" \o ToString(d.class_id)
  /\ (OneRowRead /\ MiddleBox /\ ConfidenceRead >= 500000 /\ ConfidenceRead <= Unit) =>
       /\ inference.status = 200
       /\ Len(inference.detections) = 1
       /\ inference.detections[1].class_id = ClassRead

\* C22's case: process_detection's decoder read a row whose best class, 2,
\* is not in the label map, and returned it.
C22_Witness ==
  /\ inference.by = "fixed"
  /\ OneRowRead
  /\ ClassRead \notin DOMAIN labels
  /\ Len(inference.detections) = 1
  /\ inference.detections[1].label = "Unknown_2"

\* the predictions process_detection's decoder iterates over, in raw order
PredictionsRead ==
  [j \in 1..output_data.shape[3] |->
     [i \in 1..output_data.shape[2] |-> output_data.data[i][j]]]

\* detection d is what the decoder makes of prediction pred
CameFrom(d, pred) ==
  LET scores == SubSeq(pred, 5, Len(pred))
  IN /\ d.class_id + 1 \in 1..Len(scores)
     /\ \A k \in 1..Len(scores) : scores[k] <= scores[d.class_id + 1]
     /\ d.confidence * 100 - scores[d.class_id + 1] \in -50..50
     /\ Rounds(d.bbox[1], Within((2 * pred[1] - pred[3]) * image.width, image.width))
     /\ Rounds(d.bbox[3], Within((2 * pred[1] + pred[3]) * image.width, image.width))

\* C23: the detections of a successful result are in decode order: they come
\* from predictions of increasing raw index, whatever their confidences and
\* classes.  total_detections is the length of the detections sequence.
C23_DecodeOrderAndCount ==
  /\ (/\ inference.by = "fixed" /\ inference.status = 200
      /\ Len(output_data.shape) = 3 /\ output_data.shape[2] >= 5) =>
       \E f \in [1..Len(inference.detections) -> 1..output_data.shape[3]] :
         /\ \A i \in DOMAIN f, j \in DOMAIN f : i < j => f[i] < f[j]
         /\ \A i \in DOMAIN f :
              CameFrom(inference.detections[i], PredictionsRead[f[i]])
  /\ response # NoResponse =>
       /\ response.detections = inference.detections
       /\ response.total_detections = Len(response.detections)

\* C23's case: a response with two detections, the less confident one first.
C23_Witness ==
  /\ response # NoResponse
  /\ response.total_detections = 2
  /\ response.detections[1].confidence < response.detections[2].confidence

\* c is the index, from 0, of the first maximum of scores
FirstMaximum(scores, c) ==
  /\ c + 1 \in 1..Len(scores)
  /\ \A k \in 1..Len(scores) : scores[k] <= scores[c + 1]
  /\ \A k \in 1..c : scores[k] < scores[c + 1]

\* the rows of a [1, N, values] tensor
RowsRead == output_data.data

\* C24: in the formats with a score vector the class id is the index of the
\* maximum of the row's class scores, the lowest on ties, and the confidence
\* follows one rule per format: in the channels-first grid it is that maximum
\* score, in the objectness + class scores format it is the objectness times
\* that maximum score.  Every returned detection was made by its format's
\* rule from one of the rows.
C24_ClassAndConfidenceRule ==
  /\ (/\ inference.by = "fixed" /\ inference.status = 200
      /\ Len(output_data.shape) = 3 /\ output_data.shape[2] >= 5) =>
       \A i \in 1..Len(inference.detections) :
         LET d == inference.detections[i]
         IN \E j \in 1..output_data.shape[3] :
              LET scores == SubSeq(PredictionsRead[j], 5, output_data.shape[2])
              IN /\ FirstMaximum(scores, d.class_id)
                 /\ d.confidence * 100 - scores[d.class_id + 1] \in -50..50
  /\ (/\ inference.by = "orig" /\ inference.status = 200
      /\ Len(output_data.shape) = 3 /\ output_data.shape[3] >= NumValuesYolo) =>
       \A i \in 1..Len(inference.detections) :
         LET d == inference.detections[i]
         IN \E j \in 1..output_data.shape[2] :
              LET scores == SubSeq(RowsRead[j], 6, output_data.shape[3])
              IN /\ FirstMaximum(scores, d.class_id)
                 /\ d.confidence * 100
                      - (RowsRead[j][5] \div 1000) * (scores[d.class_id + 1] \div 1000)
                      \in -50..50

\* C24's case: the grid decoder returned a detection for a prediction whose
\* maximum score is taken by two classes, 0 and 2.
C24_Witness ==
  /\ inference.by = "fixed"
  /\ OneRowRead
  /\ output_data.shape[2] = NumValuesYolo
  /\ RowRead[5] = RowRead[7]
  /\ RowRead[6] < RowRead[5]
  /\ Len(inference.detections) = 1
  /\ inference.detections[1].class_id = 0

\* no coroutine is inside a load: startup is over and every request is
\* waiting to be taken up or has been answered
Idle == \A p \in Procs : pc[p] \in {"new", "done"}

\* C25: a key in models_cache (one the health check reports as loaded) has
\* its whole bundle cached: it is in labels_cache and in metadata_cache too,
\* also after a load whose model part succeeded and whose labels or metadata
\* part failed.
C25_BundleComplete ==
  Idle => \A k \in Registered :
            models_cache[k] # Absent =>
              labels_cache[k] # Absent /\ metadata_cache[k] # Absent

\* p is in the load of art: in download_file, or in what follows it
InLoadOf(p, art) ==
  pc[p] \in {"dl_" \o art, IF art = "model" THEN "build_model" ELSE "parse_" \o art}

C27_StartupCachesSucceededKeys ==
  /\ [](pc[Startup] = "done" => si = Len(StartupKeys) + 1)
  /\ [][(pc[Startup] # "startup_next" /\ pc'[Startup] = "startup_next"
           /\ exc'[Startup] # NoExc) =>
          models_cache'[key[Startup]] = Absent]_vars

\* C28: detect_cats / detect_dogs answer every finished request.  When
\* process_detection raised, the answer has the exception's status and the
\* body {error: detail, model_type: key}, without detections; the status is
\* 400 for an upload that validation refused and 500 for every other
\* failure on these routes, a wrapped non-HTTP exception included; otherwise
\* it is 200.
C28_ControllerAnswersEveryError ==
  \A r \in Reqs :
    (pc[r] = "done" /\ route[r] = "detect") =>
      /\ resp[r] = ControllerAnswer(r).status_code
      /\ resp[r] \in {200, 400, 500}
      /\ resp[r] = 200 <=> exc[r] = NoExc
      /\ resp[r] = 400 <=> Rejected(r)
      /\ exc[r] # NoExc =>
           /\ ControllerAnswer(r).error = exc[r].detail
           /\ ControllerAnswer(r).model_type = key[r]
           /\ DOMAIN ControllerAnswer(r) = {"status_code", "error", "model_type"}

\* C28's case: Image.open raised, which is no HTTPException; the request
\* was answered 500 with the error body.
C28_Witness ==
  \E r \in Reqs :
    /\ Undecodable(r)
    /\ route[r] = "detect"
    /\ resp[r] = 500
    /\ ControllerAnswer(r).error = "Error processing image"

\* C29: health_check only reads.  The step that answers it starts no
\* download or load and leaves the three caches and everything else of the
\* service as they were; it reports as models_loaded the keys of
\* models_cache and as available_models the registered keys.
C29_HealthCheckReadOnly ==
  /\ [](health # NoHealth =>
          /\ health.status = "healthy"
          /\ \A k \in Keys : k \in health.models_loaded <=> models_cache[k] # Absent
          /\ health.available_models = {"cats", "dogs"})
  /\ [][health' # health => UNCHANGED <<svcVars, procVars>>]_vars

\* C29's case: a health check found one key with its model cached and its
\* labels missing, and the other key not loaded; it reported the first.
C29_Witness ==
  /\ health # NoHealth
  /\ health.models_loaded = {"cats"}
  /\ labels_cache["cats"] = Absent
  /\ dlStarted["cats"]["model"] > 0

====
